---- MODULE Spec2Model ----
(***************************************************************************)
(* A model of corejam/argparse.py: the CustomArgParser presentation        *)
(* overrides and the jam_parser context manager (the "run guard").         *)
(*                                                                         *)
(* One behaviour of the model is one invocation of a command-line program  *)
(* that runs `with jam_parser(parser, title, version) as args: <block>`.   *)
(* Everything the invocation does that can be observed from outside (a     *)
(* write to a stream, a log record, a call of a collaborator, the yield to *)
(* the caller's block, the call of sys.exit) is appended to `trace` in the *)
(* order the code performs it.                                             *)
(***************************************************************************)
EXTENDS Integers, Sequences, FiniteSets, TLC

\* Longest command line (arguments after the program name) that is explored.
MaxArgs == 2

\* Width of the separator lines of the warnings block ('=' * 80, '_' * 80).
SepWidth == 80

VARIABLES
    sys_argv,     \* sys.argv: the program name followed by the arguments
    parser,       \* the configured CustomArgParser: prog, _version, _url, dests
    title,        \* the title argument of jam_parser
    version,      \* the version argument of jam_parser
    pc,           \* position of the invocation inside jam_parser / the block
    trace,        \* everything observable done so far, in order
    exitStatus,   \* <<>> while running, <<n>> once sys.exit(n) was called
    nparse,       \* number of calls of parser.parse_args() so far
    args,         \* <<>> or <<r>>: the local `args` of jam_parser (line 129)
    setupCalls,   \* the argument tuples logger_setup was called with
    yielded,      \* <<>> or <<r>>: the value yielded to the caller's block
    raised,       \* <<>> or <<e>>: the exception the caller's block raised
    handler       \* the except clause of jam_parser that ran, or "none"

vars == <<sys_argv, parser, title, version, pc, trace, exitStatus, nparse,
          args, setupCalls, yielded, raised, handler>>

----------------------------------------------------------------------------
(* Inputs *)

Progs == {"demo", "jam"}

\* The tokens command lines are made of.  "out" is the only token that does
\* not start with '-'.
Tokens == {"-v", "--v", "-version", "--version", "-h",
           "--debug", "--out_dir", "--bad", "out"}

PlainTokens == {"out"}

\* The optional arguments a caller's grammar may define besides -h.
Dests == {"out_dir", "debug"}

RECURSIVE SeqsUpTo(_, _)
SeqsUpTo(S, n) ==
    IF n = 0 THEN {<<>>}
    ELSE LET shorter == SeqsUpTo(S, n - 1)
         IN  shorter \cup {Append(s, t) : s \in shorter, t \in S}

\* The exceptions the caller's block may raise: a class name and str(e).
RaisedTypes == {"KeyboardInterrupt", "SystemExit", "GeneratorExit",
                "JAMException", "ConfigError",
                "ZeroDivisionError", "ValueError"}

Messages == {"", "bad config", "division by zero"}

----------------------------------------------------------------------------
(* Observable events *)

Write(file, text) == [op |-> "write", to |-> file, level |-> "", text |-> text]
Log(channel, level, text) ==
    [op |-> "log", to |-> channel, level |-> level, text |-> text]
Call(callee) == [op |-> "call", to |-> callee, level |-> "", text |-> ""]
YieldEv == [op |-> "yield", to |-> "caller", level |-> "", text |-> ""]
ExitEv == [op |-> "exit", to |-> "process", level |-> "", text |-> ""]

----------------------------------------------------------------------------
(* Collaborators *)

\* corejam.logging.colour: the text wrapped in the colour's escape codes.
colour(text, fg) == "<" \o fg \o ">" \o text \o "</>"

RECURSIVE Repeat(_, _)
Repeat(ch, n) == IF n = 0 THEN "" ELSE ch \o Repeat(ch, n - 1)

RECURSIVE Join(_, _)
Join(sep, lines) ==
    IF lines = <<>> THEN ""
    ELSE IF Len(lines) = 1 THEN lines[1]
    ELSE lines[1] \o sep \o Join(sep, Tail(lines))

----------------------------------------------------------------------------
(* CustomArgParser *)

print_usage(p, file) ==
    LET lines == << "  " \o colour(p.prog \o " v" \o p.ver, "blue"),
                    "  " \o p.url,
                    "" >>
    IN  << Write(file, Join("\n", lines)) >>

\* format_help() of the base parser, as its first character and the rest.
format_help(p) ==
    [first |-> "u",
     rest  |-> "sage: " \o p.prog \o " [-h]\n\noptions:\n"]

upper(c) == CASE c = "u" -> "U" [] OTHER -> c

print_help(p, file) ==
    << Write(file, upper(format_help(p).first) \o format_help(p).rest \o "\n") >>

\* exit(status, message): the events and the status handed to sys.exit.
\* A missing message (None) is the empty string.
parser_exit(status, message) ==
    [evs    |-> (IF message # ""
                 THEN << Write("stderr", colour(message, "red") \o "\n") >>
                 ELSE << >>) \o << ExitEv >>,
     status |-> status]

parser_error_NoUsage(p, message) ==
    parser_exit(2, "[" \o p.prog \o "] Error: " \o message \o "\n")

parser_error(p, message) ==
    LET usage == print_usage(p, "stderr")
        x     == parser_exit(2, "[" \o p.prog \o "] Error: " \o message \o "\n")
    IN  [evs |-> usage \o x.evs, status |-> x.status]

print_version_Silent(p) == << >>

print_version(p) ==
    << Write("stdout", colour(p.prog \o " v" \o p.ver, "blue") \o "\n") >>

----------------------------------------------------------------------------
(* parser.parse_args(): the base parser on a grammar that defines -h and   *)
(* the optional arguments in p.dests (--out_dir DIR, --debug).             *)

EmptyNamespace(p) ==
    [attrs |-> p.dests, out_dir |-> << >>, debug |-> FALSE]

RECURSIVE consume(_, _, _, _)
consume(p, toks, ns, extras) ==
    IF toks = << >> THEN
        IF extras # << >>
        THEN [kind |-> "error", ns |-> ns,
              detail |-> "unrecognized arguments: " \o Join(" ", extras)]
        ELSE [kind |-> "ok", ns |-> ns, detail |-> ""]
    ELSE
        LET t == Head(toks)
            rest == Tail(toks)
        IN  IF t = "-h" THEN
                [kind |-> "help", ns |-> ns, detail |-> ""]
            ELSE IF t = "--debug" /\ "debug" \in p.dests THEN
                consume(p, rest, [ns EXCEPT !.debug = TRUE], extras)
            ELSE IF t = "--out_dir" /\ "out_dir" \in p.dests THEN
                IF rest = << >> \/ Head(rest) \notin PlainTokens
                THEN [kind |-> "error", ns |-> ns,
                      detail |-> "argument --out_dir: expected one argument"]
                ELSE consume(p, Tail(rest),
                             [ns EXCEPT !.out_dir = << Head(rest) >>], extras)
            ELSE consume(p, rest, ns, Append(extras, t))

parse_args(p, argv) == consume(p, Tail(argv), EmptyNamespace(p), << >>)

\* What a call of parse_args that does not return does: -h prints the help
\* and exits with 0, a rejected command line goes through error().
parse_failure(p, r) ==
    IF r.kind = "help"
    THEN LET x == parser_exit(0, "")
         IN  [evs |-> print_help(p, "stdout") \o x.evs, status |-> x.status]
    ELSE parser_error(p, r.detail)

hasattr(ns, name) == name \in ns.attrs

----------------------------------------------------------------------------
(* Exceptions *)

\* The base class of corejam.exceptions.JAMException.
JAMExceptionBase == "Exception"

\* The (single-inheritance) class hierarchy of the exceptions involved;
\* ConfigError stands for a subclass of JAMException defined by a caller.
Bases ==
    [BaseException     |-> "object",
     Exception         |-> "BaseException",
     KeyboardInterrupt |-> "BaseException",
     SystemExit        |-> "BaseException",
     GeneratorExit     |-> "BaseException",
     ArithmeticError   |-> "Exception",
     ZeroDivisionError |-> "ArithmeticError",
     ValueError        |-> "Exception",
     JAMException      |-> JAMExceptionBase,
     ConfigError       |-> "JAMException"]

issubclass_ExactType(cls, parent) == cls = parent

RECURSIVE issubclass(_, _)
issubclass(cls, parent) ==
    \/ cls = parent
    \/ /\ cls # "object"
       /\ issubclass(Bases[cls], parent)

ExceptClauses_GenericFirst == << "KeyboardInterrupt", "Exception", "JAMException" >>

\* The except clauses of jam_parser, in the order they are written.
ExceptClauses == << "KeyboardInterrupt", "JAMException", "Exception" >>

\* The first clause that matches, as Python picks it; "none" if none does.
MatchingClause(e) ==
    LET hits == {i \in 1..Len(ExceptClauses) : issubclass(e.type, ExceptClauses[i])}
    IN  IF hits = {} THEN "none"
        ELSE ExceptClauses[CHOOSE i \in hits : \A j \in hits : i <= j]

str(e) == e.msg

\* traceback.format_exc() inside a handler of e.
format_exc(e) ==
    "Traceback (most recent call last):\n"
    \o (IF str(e) = "" THEN e.type ELSE e.type \o ": " \o str(e)) \o "\n"

KeyboardInterruptMsg == "Controlled exit resulting from keyboard interrupt."

ControlledExitMsg ==
    "Controlled exit resulting from an unrecoverable error or warning (see warnings.log)."

UncontrolledExitMsg_Copied == ControlledExitMsg

UncontrolledExitMsg ==
    "Uncontrolled exit resulting from an unexpected error (see warnings.log)."

\* The msg both exception handlers build for the warnings log.
WarningsBlock(e) ==
    "Controlled exit resulting from an unrecoverable error or warning.\n\n"
    \o Repeat("=", SepWidth) \o "\n"
    \o "EXCEPTION: " \o e.type \o "\n"
    \o "  MESSAGE: " \o str(e) \o "\n"
    \o Repeat("_", SepWidth) \o "\n\n"
    \o format_exc(e)
    \o Repeat("=", SepWidth)

----------------------------------------------------------------------------
(* jam_parser *)

Init ==
    /\ sys_argv \in {<< "prog.py" >> \o a : a \in SeqsUpTo(Tokens, MaxArgs)}
    /\ parser \in [prog : Progs, ver : {"1.2.3"}, url : {"https://example.org"},
                   dests : SUBSET Dests]
    /\ title \in Progs
    /\ version = "1.2.3"
    /\ pc = "start"
    /\ trace = << >>
    /\ exitStatus = << >>
    /\ nparse = 0
    /\ args = << >>
    /\ setupCalls = << >>
    /\ yielded = << >>
    /\ raised = << >>
    /\ handler = "none"

VersionFlags_Short == {"-v", "-version", "--version"}

VersionFlags == {"-v", "--v", "-version", "--version"}

\* The branch of the if / elif / else of lines 122-128.
Branch(argv) ==
    IF Len(argv) = 1 THEN "usage"
    ELSE IF argv[2] \in VersionFlags THEN "version"
    ELSE "parse"

\* sys.exit(status) after the events evs.
Exit(evs, status) ==
    /\ trace' = trace \o evs
    /\ exitStatus' = << status >>
    /\ pc' = "exited"

NoArguments_Exit0 ==
    /\ pc = "start"
    /\ Branch(sys_argv) = "usage"
    /\ Exit(print_usage(parser, "stdout") \o << ExitEv >>, 0)
    /\ UNCHANGED <<sys_argv, parser, title, version, nparse, args, setupCalls,
                   yielded, raised, handler>>

\* Lines 122-124.
NoArguments ==
    /\ pc = "start"
    /\ Branch(sys_argv) = "usage"
    /\ Exit(print_usage(parser, "stdout") \o << ExitEv >>, 1)
    /\ UNCHANGED <<sys_argv, parser, title, version, nparse, args, setupCalls,
                   yielded, raised, handler>>

\* Lines 125-127.
VersionFlag ==
    /\ pc = "start"
    /\ Branch(sys_argv) = "version"
    /\ Exit(print_version(parser) \o << ExitEv >>, 0)
    /\ UNCHANGED <<sys_argv, parser, title, version, nparse, args, setupCalls,
                   yielded, raised, handler>>

ParseArgs_SkipSetup ==
    /\ pc = "start"
    /\ Branch(sys_argv) = "parse"
    /\ nparse' = nparse + 1
    /\ LET r == parse_args(parser, sys_argv)
       IN  IF r.kind = "ok"
           THEN /\ args' = << [id |-> nparse + 1, ns |-> r.ns] >>
                /\ trace' = Append(trace, Call("parse_args"))
                /\ pc' = "setup"
                /\ UNCHANGED exitStatus
           ELSE /\ Exit(<< Call("parse_args") >> \o parse_failure(parser, r).evs,
                        parse_failure(parser, r).status)
                /\ UNCHANGED args
    /\ UNCHANGED <<sys_argv, parser, title, version, setupCalls, yielded,
                   raised, handler>>

\* Line 129: args = parser.parse_args().
ParseArgs ==
    /\ pc = "start"
    /\ Branch(sys_argv) = "parse"
    /\ nparse' = nparse + 1
    /\ LET r == parse_args(parser, sys_argv)
       IN  IF r.kind = "ok"
           THEN /\ args' = << [id |-> nparse + 1, ns |-> r.ns] >>
                /\ trace' = Append(trace, Call("parse_args"))
                /\ pc' = "parsed"
                /\ UNCHANGED exitStatus
           ELSE /\ Exit(<< Call("parse_args") >> \o parse_failure(parser, r).evs,
                        parse_failure(parser, r).status)
                /\ UNCHANGED args
    /\ UNCHANGED <<sys_argv, parser, title, version, setupCalls, yielded,
                   raised, handler>>

\* Lines 130-132: logger_setup(out_dir or None, f'{title}.log', title,
\* version, False, debug).
LoggerSetup ==
    /\ pc = "parsed"
    /\ LET ns == args[1].ns
       IN  setupCalls' = Append(setupCalls,
              [out_dir  |-> IF hasattr(ns, "out_dir") THEN ns.out_dir ELSE << >>,
               log_name |-> title \o ".log",
               title    |-> title,
               version  |-> version,
               flag     |-> FALSE,
               debug    |-> hasattr(ns, "debug") /\ ns.debug])
    /\ trace' = Append(trace, Call("logger_setup"))
    /\ pc' = "setup"
    /\ UNCHANGED <<sys_argv, parser, title, version, exitStatus, nparse, args,
                   yielded, raised, handler>>

\* Line 133: yield parser.parse_args().
YieldArgs ==
    /\ pc = "setup"
    /\ nparse' = nparse + 1
    /\ LET r == parse_args(parser, sys_argv)
       IN  IF r.kind = "ok"
           THEN /\ yielded' = << [id |-> nparse + 1, ns |-> r.ns] >>
                /\ trace' = trace \o << Call("parse_args"), YieldEv >>
                /\ pc' = "block"
                /\ UNCHANGED exitStatus
           ELSE /\ Exit(<< Call("parse_args") >> \o parse_failure(parser, r).evs,
                        parse_failure(parser, r).status)
                /\ UNCHANGED yielded
    /\ UNCHANGED <<sys_argv, parser, title, version, args, setupCalls, raised,
                   handler>>

\* The caller's block ends normally: the generator resumes after the yield
\* and runs off the end of the try statement.
BlockReturns ==
    /\ pc = "block"
    /\ pc' = "done"
    /\ UNCHANGED <<sys_argv, parser, title, version, trace, exitStatus, nparse,
                   args, setupCalls, yielded, raised, handler>>

\* The caller's block raises: the exception is thrown into the generator at
\* the yield, inside the try statement.
BlockRaises ==
    /\ pc = "block"
    /\ \E t \in RaisedTypes, m \in Messages :
          raised' = << [type |-> t, msg |-> m] >>
    /\ pc' = "raised"
    /\ UNCHANGED <<sys_argv, parser, title, version, trace, exitStatus, nparse,
                   args, setupCalls, yielded, handler>>

HandleKeyboardInterrupt_Warns ==
    /\ pc = "raised"
    /\ MatchingClause(raised[1]) = "KeyboardInterrupt"
    /\ handler' = "KeyboardInterrupt"
    /\ Exit(<< Log("default", "ERROR", KeyboardInterruptMsg),
               Log("warnings", "INFO", KeyboardInterruptMsg),
               ExitEv >>, 1)
    /\ UNCHANGED <<sys_argv, parser, title, version, nparse, args, setupCalls,
                   yielded, raised>>

\* Lines 135-138.
HandleKeyboardInterrupt ==
    /\ pc = "raised"
    /\ MatchingClause(raised[1]) = "KeyboardInterrupt"
    /\ handler' = "KeyboardInterrupt"
    /\ Exit(<< Log("default", "ERROR", KeyboardInterruptMsg), ExitEv >>, 1)
    /\ UNCHANGED <<sys_argv, parser, title, version, nparse, args, setupCalls,
                   yielded, raised>>

\* The body shared, but for the default-log message, by lines 140-153 and
\* lines 155-168.
HandlerEvents(e, exitMsg) ==
    (IF Len(str(e)) > 0 THEN << Log("default", "ERROR", str(e)) >> ELSE << >>)
    \o << Log("default", "ERROR", exitMsg),
          Log("warnings", "INFO", WarningsBlock(e)),
          ExitEv >>

\* Lines 139-153.
HandleJAMException ==
    /\ pc = "raised"
    /\ MatchingClause(raised[1]) = "JAMException"
    /\ handler' = "JAMException"
    /\ Exit(HandlerEvents(raised[1], ControlledExitMsg), 1)
    /\ UNCHANGED <<sys_argv, parser, title, version, nparse, args, setupCalls,
                   yielded, raised>>

\* Lines 154-168.
HandleException ==
    /\ pc = "raised"
    /\ MatchingClause(raised[1]) = "Exception"
    /\ handler' = "Exception"
    /\ Exit(HandlerEvents(raised[1], UncontrolledExitMsg), 1)
    /\ UNCHANGED <<sys_argv, parser, title, version, nparse, args, setupCalls,
                   yielded, raised>>

\* No except clause matches: the exception leaves jam_parser as it came.
Propagate ==
    /\ pc = "raised"
    /\ MatchingClause(raised[1]) = "none"
    /\ pc' = "propagated"
    /\ UNCHANGED <<sys_argv, parser, title, version, trace, exitStatus, nparse,
                   args, setupCalls, yielded, raised, handler>>

Next ==
    \/ NoArguments
    \/ VersionFlag
    \/ ParseArgs
    \/ LoggerSetup
    \/ YieldArgs
    \/ BlockReturns
    \/ BlockRaises
    \/ HandleKeyboardInterrupt
    \/ HandleJAMException
    \/ HandleException
    \/ Propagate

Spec == Init /\ [][Next]_vars

----------------------------------------------------------------------------
(* Properties *)

FirstArg == sys_argv[2]

\* The events after the yield to the caller's block.
AfterYield ==
    LET at == CHOOSE i \in 1..Len(trace) : trace[i] = YieldEv
    IN  SubSeq(trace, at + 1, Len(trace))

Logged(channel) == SelectSeq(trace, LAMBDA ev : ev.op = "log" /\ ev.to = channel)

Calls(callee) == SelectSeq(trace, LAMBDA ev : ev.op = "call" /\ ev.to = callee)

Yields == SelectSeq(trace, LAMBDA ev : ev.op = "yield")

Eq80 == "================================================================================"

Us80 == "________________________________________________________________________________"

\* The warnings block the claims describe: header, 80 '=', type name,
\* message, 80 '_', stack trace, 80 '='.
ExpectedBlock(e) ==
    "Controlled exit resulting from an unrecoverable error or warning.\n\n"
    \o Eq80 \o "\nEXCEPTION: " \o e.type \o "\n  MESSAGE: " \o e.msg \o "\n"
    \o Us80 \o "\n\n" \o format_exc(e) \o Eq80

\* C1: with no command-line argument (sys.argv of length 1) the invocation
\* prints the usage banner to standard output and exits with code 1, without
\* calling parse_args, initialising logging or entering the caller's block.
C1_NoArgumentsUsageExit1 ==
    (Len(sys_argv) = 1 /\ pc # "start") =>
        /\ pc = "exited"
        /\ exitStatus = << 1 >>
        /\ trace = << Write("stdout",
                            "  <blue>" \o parser.prog \o " v" \o parser.ver
                            \o "</>\n  " \o parser.url \o "\n"),
                      ExitEv >>
        /\ nparse = 0
        /\ setupCalls = << >>
        /\ yielded = << >>
        /\ handler = "none"

C1_Witness == Len(sys_argv) = 1 /\ pc = "exited"

\* C2: when the first argument is one of -v, --v, -version, --version the
\* invocation prints the version banner and exits with code 0, whatever
\* follows; parse_args is not called, logging is not initialised and the
\* caller's block is not entered.
C2_VersionFlagExit0 ==
    (/\ Len(sys_argv) > 1
     /\ FirstArg \in {"-v", "--v", "-version", "--version"}
     /\ pc # "start") =>
        /\ pc = "exited"
        /\ exitStatus = << 0 >>
        /\ trace = << Write("stdout",
                            "<blue>" \o parser.prog \o " v" \o parser.ver \o "</>\n"),
                      ExitEv >>
        /\ nparse = 0
        /\ setupCalls = << >>
        /\ yielded = << >>
        /\ handler = "none"

\* a version flag followed by a malformed argument
C2_Witness ==
    /\ Len(sys_argv) = 3
    /\ FirstArg = "--v"
    /\ sys_argv[3] = "--bad"
    /\ pc = "exited"

\* The command line is one the grammar rejects.
Rejected ==
    /\ Len(sys_argv) > 1
    /\ FirstArg \notin {"-v", "--v", "-version", "--version"}
    /\ parse_args(parser, sys_argv).kind = "error"

\* C3: a command line the grammar rejects gets the usage banner on standard
\* error, then "[<prog>] Error: <detail>" on standard error, then exit code
\* 2; no except clause of jam_parser intercepts the exit, logging is not
\* initialised and the caller's block is not entered.
C3_GrammarErrorExit2 ==
    (Rejected /\ pc # "start") =>
        /\ pc = "exited"
        /\ exitStatus = << 2 >>
        /\ trace = << Call("parse_args"),
                      Write("stderr",
                            "  <blue>" \o parser.prog \o " v" \o parser.ver
                            \o "</>\n  " \o parser.url \o "\n"),
                      Write("stderr",
                            "<red>[" \o parser.prog \o "] Error: "
                            \o parse_args(parser, sys_argv).detail \o "\n</>\n"),
                      ExitEv >>
        /\ handler = "none"
        /\ setupCalls = << >>
        /\ yielded = << >>

C3_Witness == Rejected /\ pc = "exited" /\ exitStatus = << 2 >>

\* The caller's block raised e and jam_parser has dealt with it.
Dealt(types) ==
    /\ raised # << >>
    /\ raised[1].type \in types
    /\ pc # "raised"

\* C4: a JAMException (or subclass) raised by the caller's block is handled
\* by the domain handler only: the default log gets the message iff it is
\* not empty, then the controlled-exit message; then the warnings log gets
\* one block with type name, message and stack trace; then the exit, code 1.
C4_DomainException ==
    Dealt({"JAMException", "ConfigError"}) =>
        LET e == raised[1]
        IN  /\ handler = "JAMException"
            /\ pc = "exited"
            /\ exitStatus = << 1 >>
            /\ AfterYield =
                   (IF e.msg # "" THEN << Log("default", "ERROR", e.msg) >>
                                  ELSE << >>)
                   \o << Log("default", "ERROR",
                             "Controlled exit resulting from an unrecoverable error or warning (see warnings.log)."),
                         Log("warnings", "INFO", ExpectedBlock(e)),
                         ExitEv >>

\* a subclass of the domain exception with the message "bad config"
C4_Witness ==
    /\ Dealt({"ConfigError"})
    /\ raised[1].msg = "bad config"
    /\ pc = "exited"

\* C5: any other Exception raised by the caller's block: the warnings log
\* gets one block of the same structure as for a domain exception, the
\* default log ends with the uncontrolled-exit message (after the exception's
\* message when that is not empty) and never holds the controlled-exit
\* message, and the exit, code 1, comes after these writes.
C5_UnexpectedException ==
    Dealt({"ZeroDivisionError", "ValueError"}) =>
        LET e == raised[1]
        IN  /\ handler = "Exception"
            /\ pc = "exited"
            /\ exitStatus = << 1 >>
            /\ AfterYield =
                   (IF e.msg # "" THEN << Log("default", "ERROR", e.msg) >>
                                  ELSE << >>)
                   \o << Log("default", "ERROR",
                             "Uncontrolled exit resulting from an unexpected error (see warnings.log)."),
                         Log("warnings", "INFO", ExpectedBlock(e)),
                         ExitEv >>
            /\ \A i \in 1..Len(Logged("default")) :
                   Logged("default")[i].text # ControlledExitMsg

C5_Witness ==
    /\ Dealt({"ZeroDivisionError"})
    /\ raised[1].msg = "division by zero"
    /\ pc = "exited"

\* C6: a KeyboardInterrupt raised by the caller's block: exactly one message,
\* the keyboard-interrupt one, is logged at error severity on the default
\* channel, nothing is written to the warnings channel, then exit code 1.
C6_KeyboardInterrupt ==
    Dealt({"KeyboardInterrupt"}) =>
        /\ handler = "KeyboardInterrupt"
        /\ pc = "exited"
        /\ exitStatus = << 1 >>
        /\ AfterYield =
               << Log("default", "ERROR",
                      "Controlled exit resulting from keyboard interrupt."),
                  ExitEv >>
        /\ Len(Logged("default")) = 1
        /\ Logged("warnings") = << >>

C6_Witness == Dealt({"KeyboardInterrupt"}) /\ pc = "exited"

\* C7 as claimed: whatever the caller's block raises, of any type, one of the
\* three handlers runs and the exception does not leave jam_parser.
C7_EveryExceptionCaught ==
    (raised # << >> /\ pc # "raised") =>
        /\ handler \in {"KeyboardInterrupt", "JAMException", "Exception"}
        /\ pc = "exited"

\* C7 as amended: a KeyboardInterrupt, a JAMException or any other subclass
\* of Exception raised by the caller's block is caught by one of the three
\* handlers and does not leave jam_parser (the process exits with code 1);
\* an exception that derives from BaseException only (SystemExit,
\* GeneratorExit) is caught by none of them and leaves jam_parser unchanged,
\* with nothing logged and no exit called by the guard.
C7_ExceptionsCaught ==
    /\ Dealt({"KeyboardInterrupt", "JAMException", "ConfigError",
              "ZeroDivisionError", "ValueError"}) =>
           /\ handler \in {"KeyboardInterrupt", "JAMException", "Exception"}
           /\ pc = "exited"
           /\ exitStatus = << 1 >>
    /\ Dealt({"SystemExit", "GeneratorExit"}) =>
           /\ handler = "none"
           /\ pc = "propagated"
           /\ exitStatus = << >>
           /\ AfterYield = << >>

\* an exception two classes below Exception has been handled
C7_Witness ==
    /\ Dealt({"ZeroDivisionError"})
    /\ handler = "Exception"
    /\ pc = "exited"

\* C8 as claimed: every exit is preceded by a record on the default or the
\* warnings channel; only the normal end of the block is silent.
C8_EveryExitLogged ==
    /\ \A i \in 1..Len(trace) :
           trace[i] = ExitEv => \E j \in 1..(i - 1) : trace[j].op = "log"
    /\ pc = "done" => (exitStatus = << >> /\ Logged("default") = << >>
                       /\ Logged("warnings") = << >>)

\* C8 as amended: every path on which jam_parser or the parser calls process
\* exit produces output first: the three exception handlers write to the
\* default log channel (the two exception handlers to the warnings channel
\* too), while the no-arguments, version-flag, help and grammar-error exits
\* write to standard output or standard error only and to no log channel;
\* the normal end of the block neither logs nor calls process exit.
C8_EveryExitAnnounced ==
    /\ \A i \in 1..Len(trace) :
           trace[i] = ExitEv =>
               /\ i = Len(trace)
               /\ \E j \in 1..(i - 1) : trace[j].op \in {"log", "write"}
    /\ (pc = "exited" /\ handler # "none") =>
           /\ Logged("default") # << >>
           /\ handler # "KeyboardInterrupt" => Logged("warnings") # << >>
    /\ (pc = "exited" /\ handler = "none") =>
           /\ Logged("default") = << >>
           /\ Logged("warnings") = << >>
           /\ \E j \in 1..Len(trace) :
                  trace[j].op = "write" /\ trace[j].to \in {"stdout", "stderr"}
    /\ pc = "done" => (exitStatus = << >> /\ Logged("default") = << >>
                       /\ Logged("warnings") = << >>)
    /\ exitStatus # << >> <=> (trace # << >> /\ trace[Len(trace)] = ExitEv)

\* the version-flag exit: announced on standard output, nothing logged
C8_Witness ==
    /\ pc = "exited"
    /\ exitStatus = << 0 >>
    /\ Len(sys_argv) > 1
    /\ FirstArg = "--version"
    /\ Logged("default") = << >>

\* C9: parsing comes before the initialisation of logging, which comes before
\* the yield; the block is entered at most once and only with logging
\* initialised; logging is initialised once when the command line is parsed
\* in full and not at all on the no-arguments, version-flag and
\* grammar-error paths.
C9_ParseSetupYieldOrder ==
    /\ \A i \in 1..Len(trace) :
           trace[i] = Call("logger_setup") =>
               \E j \in 1..(i - 1) : trace[j] = Call("parse_args")
    /\ \A i \in 1..Len(trace) :
           trace[i] = YieldEv =>
               \E j \in 1..(i - 1) : trace[j] = Call("logger_setup")
    /\ Len(Yields) <= 1
    /\ Len(Calls("logger_setup")) = Len(setupCalls)
    /\ Len(setupCalls) <= 1
    /\ (yielded # << >>) <=> (Len(Yields) = 1)
    /\ pc \in {"block", "raised", "done", "propagated"} =>
           (Len(setupCalls) = 1 /\ Len(Yields) = 1)
    /\ (pc = "exited" /\ handler # "none") => Len(setupCalls) = 1
    /\ (pc = "exited" /\ Len(sys_argv) = 1) => setupCalls = << >>
    /\ (pc = "exited" /\ Len(sys_argv) > 1
        /\ FirstArg \in {"-v", "--v", "-version", "--version"}) =>
           setupCalls = << >>
    /\ (pc = "exited" /\ exitStatus = << 2 >>) => setupCalls = << >>

\* the caller's block entered, with --debug parsed and handed to logger_setup
C9_Witness ==
    /\ pc = "block"
    /\ Len(setupCalls) = 1
    /\ setupCalls[1].debug
    /\ trace = << Call("parse_args"), Call("logger_setup"),
                  Call("parse_args"), YieldEv >>

\* C10: when the caller's block is reached parse_args has been called
\* exactly once, and the arguments yielded are the parse result that logging
\* was initialised from.
C10_ParsedOnce ==
    pc = "block" =>
        /\ nparse = 1
        /\ yielded = args

====
